---- MODULE Spec2Model ----
(***************************************************************************)
(* A model of the CGKR recommender (src/cgkr/model.py) and of its driver   *)
(* objective_function (src/cgkr/main.py).                                   *)
(*                                                                         *)
(* Numbers.  Embedding weights are integers.  The KG adjacency has the     *)
(* rational weight 1/max_neighbor_size and the UI adjacency the weight     *)
(* 1/sqrt(deg_r*deg_c); an adjacency is held as integer numerators "num"   *)
(* over one denominator "den" (max_neighbor_size for the KG adjacency,     *)
(* Unit for the UI adjacency, whose square roots are rounded down to       *)
(* 1/Unit).  through_graph returns its mean over n+1 layers multiplied by  *)
(* (n+1)*den^n, so that all arithmetic after the square root is exact.     *)
(* log, sigmoid and the 2-norm are kept as terms over their arguments.     *)
(***************************************************************************)
EXTENDS Integers, Sequences, FiniteSets, TLC

\* ------------------------------------------------------------ bounds
NumUsers == 3
NumItems == 3
NumEntities == 4
MaxNeighborSize == 2
EmbSize == 2
MaxKgLayers == 2
MaxInter == 4
MaxBatch == 2
NumTables == 2
NumParamChoices == 2
Unit == 100

\* ------------------------------------------------------------ program constants
\* config_dict of main.py; the two weights are in hundredths (0.05 and 1.0)
N_KG_LAYERS == 1
N_UI_LAYERS == 2
CF_POS_WEIGHT == 5
CF_NEG_WEIGHT == 100

n_users == NumUsers
n_items == NumItems
n_entities == NumEntities
max_neighbor_size == MaxNeighborSize
embedding_size == EmbSize

Users == 0 .. (n_users - 1)
Items == 0 .. (n_items - 1)
Entities == 0 .. (n_entities - 1)
Slots == 1 .. max_neighbor_size
Dims == 1 .. embedding_size
UiNodes == 0 .. (n_users + n_items - 1)

\* None and Some(x) of an optional value
None == << >>
Some(x) == << x >>

\* ------------------------------------------------------------ vectors
ZeroVec == [d \in Dims |-> 0]
VAdd(a, b) == [d \in Dims |-> a[d] + b[d]]
VScale(k, a) == [d \in Dims |-> k * a[d]]

RECURSIVE Pow(_, _)
Pow(b, e) == IF e = 0 THEN 1 ELSE b * Pow(b, e - 1)

Abs(x) == IF x < 0 THEN -x ELSE x

\* torch.mul(a, b).sum(dim=1) for one row
RECURSIVE DotTo(_, _, _)
DotTo(a, b, d) == IF d = 0 THEN 0 ELSE a[d] * b[d] + DotTo(a, b, d - 1)
Dot(a, b) == DotTo(a, b, embedding_size)

\* the sum of the vectors F[lo], ..., F[hi] of a function or sequence F
RECURSIVE VSum(_, _, _)
VSum(F, lo, hi) == IF hi < lo THEN ZeroVec ELSE VAdd(F[hi], VSum(F, lo, hi - 1))

\* ------------------------------------------------------------ adjacencies
\* floor(Unit / sqrt(p)), the fixed-point value of p^-0.5
InvSqrt(p) ==
    CHOOSE x \in 0 .. Unit : x * x * p <= Unit * Unit /\ (x + 1) * (x + 1) * p > Unit * Unit

\* (adj > 0).sum(axis=1) of one row
Degree(adj, r) == Cardinality({c \in DOMAIN adj[r] : adj[r][c] > 0})

norm_adj_left_only(adj) ==
    [num |-> [r \in DOMAIN adj |-> [c \in DOMAIN adj[r] |->
                IF adj[r][c] > 0 THEN InvSqrt(Degree(adj, r)) ELSE 0]],
     den |-> Unit]

\* laplace_adj = d * adj * d with d = diag((degree + 1e-7)^-0.5); the 1e-7 is
\* below the resolution 1/Unit, and a row of degree 0 has no entry
norm_adj(adj) ==
    [num |-> [r \in DOMAIN adj |-> [c \in DOMAIN adj[r] |->
                IF adj[r][c] > 0 THEN InvSqrt(Degree(adj, r) * Degree(adj, c)) ELSE 0]],
     den |-> Unit]

\* ui_graph is the set of (user, item) pairs of the interaction matrix
get_ui_adj(ui_graph) ==
    LET adj == [r \in UiNodes |-> [c \in UiNodes |->
                  IF \/ (r < n_users /\ c >= n_users /\ <<r, c - n_users>> \in ui_graph)
                     \/ (r >= n_users /\ c < n_users /\ <<c, r - n_users>> \in ui_graph)
                  THEN 1 ELSE 0]]
    IN  norm_adj(adj)

get_kg_adj_rows_off_by_one(kg_neighbors) ==
    [num |-> [i \in Entities |-> [c \in Entities |->
                IF c # 0 /\ \E s \in Slots : kg_neighbors[(i + 1) % n_entities][s] = c
                THEN 1 ELSE 0]],
     den |-> max_neighbor_size]

\* the dict keyed by (row, col) keeps one entry per distinct neighbour
get_kg_adj(kg_neighbors) ==
    [num |-> [i \in Entities |-> [c \in Entities |->
                IF c # 0 /\ \E s \in Slots : kg_neighbors[i][s] = c THEN 1 ELSE 0]],
     den |-> max_neighbor_size]

\* torch.sparse.mm(adj, all_embeddings), numerators only
sparse_mm(adj, X) ==
    [r \in DOMAIN X |->
        VSum([c \in DOMAIN X |-> VScale(adj.num[r][c], X[c])], 0, Cardinality(DOMAIN X) - 1)]

\* (A value that is used several times is bound once, as the element of a
\* singleton set, and the result is the one element of the set of results.)

\* all_embeddings_list: element l+1 is adj^l * all_embeddings, times den^l
RECURSIVE LayerList(_, _, _)
LayerList(adj, X, n) ==
    IF n = 0 THEN << X >>
    ELSE CHOOSE list \in {Append(prev, sparse_mm(adj, prev[n])) :
                            prev \in {LayerList(adj, X, n - 1)}} : TRUE

\* the scale of through_graph's result: (n_layers + 1) * den^n_layers
GraphScale(adj, n_layers) == (n_layers + 1) * Pow(adj.den, n_layers)

\* mean over the layers 0..n_layers of adj^l * all_embeddings, times GraphScale
through_graph(adj, all_embeddings, n_layers) ==
    CHOOSE mean \in
        {[r \in DOMAIN all_embeddings_list[1] |->
            VSum([l \in 0 .. n_layers |->
                    VScale(Pow(adj.den, n_layers - l), all_embeddings_list[l + 1][r])],
                 0, n_layers)] :
         all_embeddings_list \in {LayerList(adj, all_embeddings, n_layers)}} : TRUE

\* ------------------------------------------------------------ state
VARIABLES
    pc,                  \* objective_function: "start", "model" (CGKR built), "ready" (trainer built)
    config,              \* the configuration read by CGKR.__init__
    ui_graph,            \* dataset.inter_matrix: the set of (user, item) pairs
    raw_kg_neighbors,    \* the neighbor table of train_data.kg_neighbors
    cf_pos_kg_neighbors, \* the trainer's neighbor table of the positive generator
    cf_neg_kg_neighbors, \* the trainer's neighbor table of the negative generator
    ui_adj,              \* self.ui_adj
    kg_adj,              \* self.kg_adj
    user_embedding,      \* self.user_embedding.weight
    entity_embedding,    \* self.entity_embedding.weight
    restore_user_e,      \* self.restore_user_e: None or Some(snapshot)
    restore_item_e,      \* self.restore_item_e: None or Some(snapshot)
    predicted,           \* history: a full_sort_predict was called since the last calculate_loss
    call                 \* the call in progress (name, arguments, return value), or the
                         \* name of the last call once it has returned

vars == <<pc, config, ui_graph, raw_kg_neighbors, cf_pos_kg_neighbors, cf_neg_kg_neighbors,
          ui_adj, kg_adj, user_embedding, entity_embedding, restore_user_e, restore_item_e,
          predicted, call>>

\* ------------------------------------------------------------ propagation
\* the scale of forward()'s entity embeddings, and of its user embeddings
EntityScale == GraphScale(kg_adj, config.n_kg_layers)
UserScale == EntityScale * GraphScale(ui_adj, config.n_ui_layers)

\* torch.cat([user_embeddings, item_embeddings]) through the UI graph, split back
ThroughUi(entity_embeddings) ==
    LET ui0 == [r \in UiNodes |-> IF r < n_users THEN VScale(EntityScale, user_embedding[r])
                                  ELSE entity_embeddings[r - n_users]]
    IN  CHOOSE user_embeddings \in
            {[u \in Users |-> ui[u]] : ui \in {through_graph(ui_adj, ui0, config.n_ui_layers)}} :
            TRUE

\* returns <<user_embeddings, entity_embeddings>>
forward ==
    CHOOSE both \in
        {<< ThroughUi(entity_embeddings), entity_embeddings >> :
         entity_embeddings \in
            {through_graph(kg_adj, entity_embedding, config.n_kg_layers)}} : TRUE

\* ------------------------------------------------------------ neighbor expansion
\* kg_neighbors[row].view(-1) for one row of ids
RECURSIVE FlatLookup(_, _)
FlatLookup(row, kg_neighbors) ==
    IF row = << >> THEN << >>
    ELSE kg_neighbors[Head(row)] \o FlatLookup(Tail(row), kg_neighbors)

RECURSIVE HopLevels(_, _, _)
HopLevels(items, kg_neighbors, n) ==
    IF n = 0 THEN << [b \in 1 .. Len(items) |-> << items[b] >>] >>
    ELSE LET entities == HopLevels(items, kg_neighbors, n - 1)
         IN  Append(entities,
                    [b \in 1 .. Len(items) |-> FlatLookup(entities[n][b], kg_neighbors)])

get_batch_neighbors_first_hop_only(items, kg_neighbors) ==
    [k \in 1 .. (config.n_kg_layers + 1) |->
        IF k = 1 THEN [b \in 1 .. Len(items) |-> << items[b] >>]
        ELSE [b \in 1 .. Len(items) |-> FlatLookup(<< items[b] >>, kg_neighbors)]]

\* the list entities: level k of the code is element k+1 here
get_batch_neighbors(items, kg_neighbors) ==
    HopLevels(items, kg_neighbors, config.n_kg_layers)

\* ------------------------------------------------------------ counterfactual aggregation
\* torch.mean(reshape(v, (-1, max_neighbor_size, d)), dim=1) of one row, times max_neighbor_size
GroupSum(v) ==
    [g \in 1 .. (Len(v) \div max_neighbor_size) |->
        VSum(v, (g - 1) * max_neighbor_size + 1, g * max_neighbor_size)]

\* one pass of the outer loop: entity_vectors_next_iter, for one batch row
NextIter(entity_vectors) ==
    [hop \in 1 .. (Len(entity_vectors) - 1) |-> GroupSum(entity_vectors[hop + 1])]

RECURSIVE Iterated(_, _)
Iterated(entity_vectors, i) ==
    IF i = 0 THEN entity_vectors ELSE NextIter(Iterated(entity_vectors, i - 1))

\* one embedding per batch row, times EntityScale
get_cf_i_embeddings(items, kg_neighbors) ==
    LET entities == get_batch_neighbors(items, kg_neighbors)
        L == config.n_kg_layers
    IN  [b \in 1 .. Len(items) |->
            LET ev == [k \in 1 .. (L + 1) |->
                         [j \in 1 .. Len(entities[k][b]) |-> entity_embedding[entities[k][b][j]]]]
                item_embeddings_list ==
                    [i \in 0 .. L |->
                        VScale(Pow(max_neighbor_size, L - i), Iterated(ev, i)[1][1])]
            IN  VSum(item_embeddings_list, 0, L)]

\* ------------------------------------------------------------ losses and rewards
\* BPRLoss: -mean(log(gamma + sigmoid(pos - neg))), a term over the score gaps
get_bpr_loss(pos_scores, neg_scores) ==
    [fn |-> "bpr", of |-> [b \in DOMAIN pos_scores |-> pos_scores[b] - neg_scores[b]]]

\* nn.L1Loss: mean(|a - b|), a term over the absolute differences
mae_loss(a, b) ==
    [fn |-> "mae", of |-> [k \in DOMAIN a |-> Abs(a[k] - b[k])]]

Weighted(weight, loss) == [weight |-> weight, loss |-> loss]

\* torch.mul(u, e).sum(dim=1)
Scores(u_embeddings, i_embeddings) ==
    [b \in DOMAIN u_embeddings |-> Dot(u_embeddings[b], i_embeddings[b])]

\* log(gamma + sigmoid(scores1 - scores2)) - ib_beta * norm(embeddings, dim=1)
get_reward1(scores1, scores2, embeddings) ==
    [log_sigmoid |-> [b \in DOMAIN scores1 |-> scores1[b] - scores2[b]],
     ib_beta_norm_sq |-> [b \in DOMAIN embeddings |-> Dot(embeddings[b], embeddings[b])]]

get_reward2(scores1, scores2) ==
    [log_sigmoid |-> [b \in DOMAIN scores1 |-> scores1[b] - scores2[b]]]

\* x[ids] for a batch of ids
Gather(x, ids) == [b \in DOMAIN ids |-> x[ids[b]]]

calculate_loss_tuple_neg_first(interaction, user_all_embeddings, entity_all_embeddings) ==
    LET u_embeddings == Gather(user_all_embeddings, interaction.user_id)
        pos_scores == Scores(u_embeddings, Gather(entity_all_embeddings, interaction.item_id))
        neg_scores == Scores(u_embeddings,
                             Gather(entity_all_embeddings, interaction.neg_item_id))
        cf_pos_scores ==
            Scores(u_embeddings,
                   get_cf_i_embeddings(interaction.item_id, interaction.cf_pos_kg_neighbors))
        cf_neg_scores ==
            Scores(u_embeddings,
                   get_cf_i_embeddings(interaction.neg_item_id,
                                       interaction.cf_neg_kg_neighbors))
        cf_pos_loss == IF config.cf_loss_function = "mae"
                       THEN mae_loss(pos_scores, cf_pos_scores)
                       ELSE get_bpr_loss(cf_pos_scores, neg_scores)
        cf_neg_loss == IF config.cf_loss_function = "mae"
                       THEN mae_loss(neg_scores, cf_neg_scores)
                       ELSE get_bpr_loss(pos_scores, cf_neg_scores)
    IN  << get_bpr_loss(pos_scores, neg_scores) >>
        \o (IF config.cf_neg_flag
            THEN << Weighted(config.cf_neg_weight[1], cf_neg_loss) >> ELSE << >>)
        \o (IF config.cf_pos_flag
            THEN << Weighted(config.cf_pos_weight[1], cf_pos_loss) >> ELSE << >>)

\* scores carry the scale UserScale * EntityScale: the entity embeddings of forward()
\* and the cf embeddings both carry EntityScale
calculate_loss_tuple(interaction, user_all_embeddings, entity_all_embeddings) ==
    LET users == interaction.user_id
        pos_items == interaction.item_id
        neg_items == interaction.neg_item_id
        u_embeddings == Gather(user_all_embeddings, users)
        posi_embeddings == Gather(entity_all_embeddings, pos_items)
        negi_embeddings == Gather(entity_all_embeddings, neg_items)
        pos_scores == Scores(u_embeddings, posi_embeddings)
        neg_scores == Scores(u_embeddings, negi_embeddings)
        bpr_loss == get_bpr_loss(pos_scores, neg_scores)
        cf_pos_scores ==
            Scores(u_embeddings, get_cf_i_embeddings(pos_items, interaction.cf_pos_kg_neighbors))
        cf_pos_loss == IF config.cf_loss_function = "mae"
                       THEN mae_loss(pos_scores, cf_pos_scores)
                       ELSE get_bpr_loss(cf_pos_scores, neg_scores)
        cf_neg_scores ==
            Scores(u_embeddings, get_cf_i_embeddings(neg_items, interaction.cf_neg_kg_neighbors))
        cf_neg_loss == IF config.cf_loss_function = "mae"
                       THEN mae_loss(neg_scores, cf_neg_scores)
                       ELSE get_bpr_loss(pos_scores, cf_neg_scores)
    IN  << bpr_loss >>
        \o (IF config.cf_pos_flag
            THEN << Weighted(config.cf_pos_weight[1], cf_pos_loss) >> ELSE << >>)
        \o (IF config.cf_neg_flag
            THEN << Weighted(config.cf_neg_weight[1], cf_neg_loss) >> ELSE << >>)

\* torch.norm(embeddings, dim=1) needs a 2-D tensor: squeeze() in get_cf_i_embeddings
\* drops the batch axis of a batch of one row (and the embedding axis when
\* embedding_size = 1, which the model excludes: EmbSize >= 2)
NormRaises(items) == Len(items) = 1

generate_pos_reward_pair_tables_swapped(interaction, kg_neighbors1, kg_neighbors2, user_all_embeddings, entity_all_embeddings) ==
    LET u_embeddings == Gather(user_all_embeddings, interaction.user_id)
        pos_scores == Scores(u_embeddings, Gather(entity_all_embeddings, interaction.item_id))
        neg_scores == Scores(u_embeddings,
                             Gather(entity_all_embeddings, interaction.neg_item_id))
        cf_posi_embeddings1 == get_cf_i_embeddings(interaction.item_id, kg_neighbors2)
        cf_posi_embeddings2 == get_cf_i_embeddings(interaction.item_id, kg_neighbors1)
    IN  << get_reward1(Scores(u_embeddings, cf_posi_embeddings1), neg_scores,
                       cf_posi_embeddings1),
           get_reward2(pos_scores, Scores(u_embeddings, cf_posi_embeddings2)) >>

generate_pos_reward_pair(interaction, kg_neighbors1, kg_neighbors2, user_all_embeddings, entity_all_embeddings) ==
    LET users == interaction.user_id
        pos_items == interaction.item_id
        neg_items == interaction.neg_item_id
        u_embeddings == Gather(user_all_embeddings, users)
        pos_scores == Scores(u_embeddings, Gather(entity_all_embeddings, pos_items))
        neg_scores == Scores(u_embeddings, Gather(entity_all_embeddings, neg_items))
        cf_posi_embeddings1 == get_cf_i_embeddings(pos_items, kg_neighbors1)
        cf_pos_scores1 == Scores(u_embeddings, cf_posi_embeddings1)
        reward1 == get_reward1(cf_pos_scores1, neg_scores, cf_posi_embeddings1)
        cf_posi_embeddings2 == get_cf_i_embeddings(pos_items, kg_neighbors2)
        cf_pos_scores2 == Scores(u_embeddings, cf_posi_embeddings2)
        reward2 == get_reward2(pos_scores, cf_pos_scores2)
    IN  << reward1, reward2 >>

generate_neg_reward_pair(interaction, kg_neighbors1, kg_neighbors2, user_all_embeddings, entity_all_embeddings) ==
    LET users == interaction.user_id
        pos_items == interaction.item_id
        neg_items == interaction.neg_item_id
        u_embeddings == Gather(user_all_embeddings, users)
        pos_scores == Scores(u_embeddings, Gather(entity_all_embeddings, pos_items))
        neg_scores == Scores(u_embeddings, Gather(entity_all_embeddings, neg_items))
        cf_negi_embeddings1 == get_cf_i_embeddings(neg_items, kg_neighbors1)
        cf_neg_scores1 == Scores(u_embeddings, cf_negi_embeddings1)
        reward1 == get_reward1(pos_scores, cf_neg_scores1, cf_negi_embeddings1)
        cf_negi_embeddings2 == get_cf_i_embeddings(neg_items, kg_neighbors2)
        cf_neg_scores2 == Scores(u_embeddings, cf_negi_embeddings2)
        reward2 == get_reward2(cf_neg_scores2, neg_scores)
    IN  << reward1, reward2 >>

\* ------------------------------------------------------------ inputs
ParamChoices == 1 .. NumParamChoices

\* the weights a seed (or a training step, or a checkpoint) gives; row 0 is the
\* padding row, which padding_idx=0 keeps at zero
EntityWeights(s) ==
    [e \in Entities |-> IF e = 0 THEN ZeroVec
                        ELSE [d \in Dims |-> ((s * e + d * (s + 1) + e * d) % 5) - 2]]
UserWeights(s) ==
    [u \in Users |-> IF u = 0 THEN ZeroVec
                     ELSE [d \in Dims |-> ((2 * s + u * (d + 1) + s * d) % 5) - 2]]

\* a neighbor table: max_neighbor_size ids per entity, 0 the padding sentinel
KgTable(k) ==
    [e \in Entities |-> [s \in Slots |-> IF e = 0 THEN 0 ELSE (e + k * s) % n_entities]]
TableChoices == 1 .. NumTables
NextTable(k) == (k % NumTables) + 1

\* KgTable(1) with the row of entity e replaced, and row 0 replaced too when zero_too
Rows == [Slots -> Entities]
KgTables ==
    {[x \in Entities |-> IF x = e \/ (x = 0 /\ zero_too) THEN row ELSE KgTable(1)[x]] :
        e \in Entities \ {0}, row \in Rows, zero_too \in BOOLEAN}

RealUsers == Users \ {0}
RealItems == Items \ {0}

\* the interaction matrices of at most MaxInter entries between real users and
\* real items, alone or with one entry in the row of user 0
UiGraphs ==
    {g \cup z : g \in {h \in SUBSET (RealUsers \X RealItems) : Cardinality(h) <= MaxInter},
                z \in {{}} \cup {{<<0, i>>} : i \in Items}}
NextItem(i) == (i % (n_items - 1)) + 1
NextUser(u) == (u % (n_users - 1)) + 1

\* a batch of n rows starting at user u: users alternate, the negative item is
\* another item than the positive one
BatchUsers(u, n) == [b \in 1 .. n |-> IF b % 2 = 1 THEN u ELSE NextUser(u)]
BatchPos(u, n) == [b \in 1 .. n |-> IF b % 2 = 1 THEN NextItem(u) ELSE NextItem(u + 1)]
BatchNeg(u, n) == [b \in 1 .. n |-> NextItem(BatchPos(u, n)[b])]

\* a batch carries the trainer's two neighbor tables as extra fields
Interaction(u, n) ==
    [user_id |-> BatchUsers(u, n), item_id |-> BatchPos(u, n), neg_item_id |-> BatchNeg(u, n),
     cf_pos_kg_neighbors |-> cf_pos_kg_neighbors, cf_neg_kg_neighbors |-> cf_neg_kg_neighbors]

Interactions == {Interaction(u, n) : u \in RealUsers, n \in 1 .. MaxBatch}

ItemBatch(i, n) == [b \in 1 .. n |-> IF b = 1 THEN i ELSE NextItem(i + b - 2)]
ItemBatches == {ItemBatch(i, n) : i \in Items, n \in 1 .. MaxBatch}

FixedUiGraph == {<<u, i>> \in RealUsers \X RealItems : i = 1 \/ (u + i) % 2 = 0}

\* a weight is set (Some) whenever its flag is on
Configs(kg_layers, ui_layers) ==
    {c \in [n_kg_layers : kg_layers, n_ui_layers : ui_layers,
            cf_pos_flag : BOOLEAN, cf_neg_flag : BOOLEAN,
            cf_pos_weight : {None, Some(CF_POS_WEIGHT)},
            cf_neg_weight : {None, Some(CF_NEG_WEIGHT)},
            cf_loss_function : {"mae", "bpr"}, seed : {1}] :
        /\ c.cf_pos_flag => c.cf_pos_weight # None
        /\ c.cf_neg_flag => c.cf_neg_weight # None}

\* the configuration of main.py's config_dict
MainConfig ==
    [n_kg_layers |-> N_KG_LAYERS, n_ui_layers |-> N_UI_LAYERS,
     cf_pos_flag |-> TRUE, cf_neg_flag |-> TRUE,
     cf_pos_weight |-> Some(CF_POS_WEIGHT), cf_neg_weight |-> Some(CF_NEG_WEIGHT),
     cf_loss_function |-> "mae", seed |-> 1]

\* ------------------------------------------------------------ construction
\* no call in progress; op is "calculate_loss" while its losses await the optimizer
Idle(op) == [op |-> op, returned |-> TRUE]

\* before CGKR(config, train_data, raw_kg_neighbors): nothing of the model exists
Blank ==
    /\ pc = "start"
    /\ ui_adj = None /\ kg_adj = None
    /\ user_embedding = None /\ entity_embedding = None
    /\ restore_user_e = None /\ restore_item_e = None
    /\ cf_pos_kg_neighbors = None /\ cf_neg_kg_neighbors = None
    /\ predicted = FALSE
    /\ call = Idle("none")

Init ==
    /\ Blank
    /\ config \in Configs({N_KG_LAYERS}, {N_UI_LAYERS})
    /\ ui_graph = FixedUiGraph
    /\ raw_kg_neighbors = KgTable(1)

\* every neighbor table with the fixed interaction matrix, and every interaction
\* matrix with the fixed neighbor table
InitGraph ==
    /\ Blank
    /\ \/ /\ raw_kg_neighbors \in KgTables
          /\ ui_graph = FixedUiGraph
          /\ \E l \in 0 .. MaxKgLayers : config = [MainConfig EXCEPT !.n_kg_layers = l]
       \/ /\ raw_kg_neighbors = KgTable(1)
          /\ ui_graph \in UiGraphs
          /\ \E m \in 0 .. N_UI_LAYERS : config = [MainConfig EXCEPT !.n_ui_layers = m]

\* CGKR.__init__: the flags and weights are read, never compared; the weights
\* are the seeded initialization with row 0 filled with 0
CGKR_init ==
    /\ pc = "start"
    /\ ui_adj' = get_ui_adj(ui_graph)
    /\ kg_adj' = get_kg_adj(raw_kg_neighbors)
    /\ user_embedding' = UserWeights(config.seed)
    /\ entity_embedding' = EntityWeights(config.seed)
    /\ restore_user_e' = None /\ restore_item_e' = None
    /\ pc' = "model"
    /\ call' = Idle("none")
    /\ UNCHANGED <<config, ui_graph, raw_kg_neighbors, cf_pos_kg_neighbors,
                   cf_neg_kg_neighbors, predicted>>

\* objective_function, lines 42-53: a generator per flag that is on, then the
\* trainer, which is given raw_kg_neighbors
BuildTrainer ==
    /\ pc = "model"
    /\ pc' = "ready"
    /\ cf_pos_kg_neighbors' = raw_kg_neighbors
    /\ cf_neg_kg_neighbors' = raw_kg_neighbors
    /\ call' = Idle("none")
    /\ UNCHANGED <<config, ui_graph, raw_kg_neighbors, ui_adj, kg_adj, user_embedding,
                   entity_embedding, restore_user_e, restore_item_e, predicted>>

Frame == UNCHANGED <<pc, config, ui_graph, raw_kg_neighbors, ui_adj, kg_adj>>
Tables == UNCHANGED <<cf_pos_kg_neighbors, cf_neg_kg_neighbors>>
Params == UNCHANGED <<user_embedding, entity_embedding>>
Cache == UNCHANGED <<restore_user_e, restore_item_e>>

\* the trainer may call the model when it is built and no call is in progress
CanCall == pc = "ready" /\ call.returned

\* ------------------------------------------------------------ operations of the model
Forward ==
    /\ CanCall
    /\ call' = [op |-> "forward", returned |-> FALSE, ran_forward |-> TRUE, ret |-> forward]
    /\ Frame /\ Tables /\ Params /\ Cache /\ UNCHANGED predicted

\* the tables the trainer holds
HeldTables == {raw_kg_neighbors, cf_pos_kg_neighbors, cf_neg_kg_neighbors}

GetBatchNeighbors ==
    /\ CanCall
    /\ \E items \in ItemBatches, kg_neighbors \in HeldTables :
        call' = [op |-> "get_batch_neighbors", returned |-> FALSE, items |-> items,
                 kg_neighbors |-> kg_neighbors, ran_forward |-> FALSE,
                 ret |-> get_batch_neighbors(items, kg_neighbors)]
    /\ Frame /\ Tables /\ Params /\ Cache /\ UNCHANGED predicted

GetCfIEmbeddings ==
    /\ CanCall
    /\ \E items \in ItemBatches, kg_neighbors \in HeldTables :
        call' = [op |-> "get_cf_i_embeddings", returned |-> FALSE, items |-> items,
                 kg_neighbors |-> kg_neighbors, ran_forward |-> FALSE,
                 ret |-> get_cf_i_embeddings(items, kg_neighbors)]
    /\ Frame /\ Tables /\ Params /\ Cache /\ UNCHANGED predicted

\* given: the trainer passes the embeddings of its own forward() call, and
\* calculate_loss does not run forward() itself
CalculateLoss ==
    /\ CanCall
    /\ \E all_embeddings \in {forward}, interaction \in Interactions, given \in BOOLEAN :
         call' = [op |-> "calculate_loss", returned |-> FALSE,
                  interaction |-> interaction, given |-> given, ran_forward |-> ~given,
                  ret |-> calculate_loss_tuple(interaction, all_embeddings[1],
                                               all_embeddings[2])]
    /\ restore_user_e' = None /\ restore_item_e' = None
    /\ predicted' = FALSE
    /\ Frame /\ Tables /\ Params

full_sort_predict_always_forward == TRUE

\* whether full_sort_predict runs forward()
full_sort_predict_recomputes == restore_user_e = None \/ restore_item_e = None

FullSortPredict ==
    /\ CanCall
    /\ \E recompute \in {full_sort_predict_recomputes} :
       \E snapshot \in {IF recompute
                        THEN CHOOSE p \in {<<f[1], [i \in Items |-> f[2][i]]>> : f \in {forward}} :
                                TRUE
                        ELSE <<restore_user_e[1], restore_item_e[1]>>} :
         /\ restore_user_e' = Some(snapshot[1])
         /\ restore_item_e' = Some(snapshot[2])
         /\ \E u \in RealUsers, n \in 1 .. MaxBatch :
              LET user == BatchUsers(u, n)
              IN  call' = [op |-> "full_sort_predict", returned |-> FALSE, user |-> user,
                           ran_forward |-> recompute,
                           ret |-> [k \in 1 .. (n * n_items) |->
                                      Dot(snapshot[1][user[((k - 1) \div n_items) + 1]],
                                          snapshot[2][(k - 1) % n_items])]]
    /\ predicted' = TRUE
    /\ Frame /\ Tables /\ Params

\* the call record of a reward entry point
RewardCall(dir, interaction, all_embeddings) ==
    LET kg_neighbors1 == interaction.cf_pos_kg_neighbors
        kg_neighbors2 == interaction.cf_neg_kg_neighbors
        items == IF dir = "pos" THEN interaction.item_id ELSE interaction.neg_item_id
    IN  [op |-> IF dir = "pos" THEN "generate_pos_reward" ELSE "generate_neg_reward",
         returned |-> FALSE, interaction |-> interaction,
         kg_neighbors1 |-> kg_neighbors1, kg_neighbors2 |-> kg_neighbors2,
         ran_forward |-> FALSE,
         raised |-> NormRaises(items),
         ret |-> IF NormRaises(items) THEN << >>
                 ELSE IF dir = "pos"
                 THEN generate_pos_reward_pair(interaction, kg_neighbors1, kg_neighbors2,
                                               all_embeddings[1], all_embeddings[2])
                 ELSE generate_neg_reward_pair(interaction, kg_neighbors1, kg_neighbors2,
                                               all_embeddings[1], all_embeddings[2])]

GenerateReward_clears_cache ==
    /\ CanCall
    /\ \E all_embeddings \in {forward}, interaction \in Interactions, dir \in {"pos", "neg"} :
         call' = RewardCall(dir, interaction, all_embeddings)
    /\ restore_user_e' = None /\ restore_item_e' = None
    /\ Frame /\ Tables /\ Params /\ UNCHANGED predicted

\* generate_pos_reward and generate_neg_reward: the trainer passes the two
\* generators' neighbor tables and the embeddings of forward()
GenerateReward ==
    /\ CanCall
    /\ \E all_embeddings \in {forward}, interaction \in Interactions, dir \in {"pos", "neg"} :
         call' = RewardCall(dir, interaction, all_embeddings)
    /\ Frame /\ Tables /\ Params /\ Cache /\ UNCHANGED predicted

\* a call returns: its frame is dropped; the losses calculate_loss returned
\* stay with the trainer until its optimizer step
Return ==
    /\ ~call.returned
    /\ call' = Idle(IF call.op = "calculate_loss" THEN "calculate_loss" ELSE "none")
    /\ Frame /\ Tables /\ Params /\ Cache /\ UNCHANGED predicted

\* ------------------------------------------------------------ the trainer's steps
\* optimizer.step() after the backward pass of the calculate_loss that returned
OptimizerStep ==
    /\ CanCall /\ call.op = "calculate_loss"
    /\ \E s \in ParamChoices :
        /\ user_embedding' = UserWeights(s)
        /\ entity_embedding' = EntityWeights(s)
    /\ call' = Idle("none")
    /\ Frame /\ Tables /\ Cache /\ UNCHANGED predicted

\* load_state_dict of a checkpoint (resume_checkpoint, evaluate(load_best_model=True)):
\* the parameters only, restore_user_e and restore_item_e are plain attributes
LoadCheckpoint ==
    /\ CanCall
    /\ \E s \in ParamChoices :
        /\ user_embedding' = UserWeights(s)
        /\ entity_embedding' = EntityWeights(s)
    /\ call' = Idle("none")
    /\ Frame /\ Tables /\ Cache /\ UNCHANGED predicted

\* the trainer commits other neighbor tables for the two generators
UpdateNeighborState ==
    /\ CanCall
    /\ \E k \in TableChoices :
        /\ cf_pos_kg_neighbors' = KgTable(k)
        /\ cf_neg_kg_neighbors' = KgTable(NextTable(k))
    /\ call' = Idle("none")
    /\ Frame /\ Params /\ Cache /\ UNCHANGED predicted

Next ==
    \/ CGKR_init
    \/ BuildTrainer
    \/ Forward
    \/ GetBatchNeighbors
    \/ GetCfIEmbeddings
    \/ CalculateLoss
    \/ FullSortPredict
    \/ GenerateReward
    \/ Return
    \/ OptimizerStep
    \/ LoadCheckpoint
    \/ UpdateNeighborState

Spec == Init /\ [][Next]_vars

NextGraph ==
    \/ CGKR_init
    \/ BuildTrainer
    \/ Forward
    \/ GetBatchNeighbors
    \/ GetCfIEmbeddings
    \/ Return

SpecGraph == InitGraph /\ [][NextGraph]_vars

\* ------------------------------------------------------------ claims
InCall(op) == call.op = op /\ ~call.returned

\* C1: every full_sort_predict scores with a snapshot equal to forward() of the
\* parameters current at that call (no snapshot computed before a parameter
\* change is used after it).
C1_SnapshotIsCurrent ==
    InCall("full_sort_predict") =>
        /\ restore_user_e = Some(forward[1])
        /\ restore_item_e = Some([i \in Items |-> forward[2][i]])

\* C2: full_sort_predict runs forward() only when the cache is invalid, and a
\* full_sort_predict called after another one with no calculate_loss between
\* them runs no forward() and leaves the stored user and item snapshot as it is.
C2_ForwardOnlyWhenInvalid ==
    [][(call'.op = "full_sort_predict" /\ ~call'.returned /\ call.returned) =>
          /\ call'.ran_forward => (restore_user_e = None \/ restore_item_e = None)
          /\ predicted => /\ ~call'.ran_forward
                          /\ restore_user_e' = restore_user_e
                          /\ restore_item_e' = restore_item_e]_vars

\* a later full_sort_predict of a run reused the stored snapshot
C2_Witness ==
    /\ InCall("full_sort_predict") /\ ~call.ran_forward
    /\ restore_user_e # None /\ restore_item_e # None

\* the scores of a batch's users against the forward() embeddings of items, and
\* against the counterfactual embeddings of items under a neighbor table
TrueScores(f, interaction, items) ==
    Scores(Gather(f[1], interaction.user_id), Gather(f[2], items))
CfScores(f, interaction, items, kg_neighbors) ==
    Scores(Gather(f[1], interaction.user_id), get_cf_i_embeddings(items, kg_neighbors))

\* C3: calculate_loss returns the BPR ranking loss, then cf_pos_weight times the
\* positive-consistency loss iff cf_pos_flag, then cf_neg_weight times the
\* negative-consistency loss iff cf_neg_flag: 1 + [cf_pos_flag] + [cf_neg_flag]
\* terms in that order.
C3_LossTuple ==
    InCall("calculate_loss") =>
        \A f \in {forward} :
            LET i == call.interaction
                pos == TrueScores(f, i, i.item_id)
                neg == TrueScores(f, i, i.neg_item_id)
                cf_pos == CfScores(f, i, i.item_id, i.cf_pos_kg_neighbors)
                cf_neg == CfScores(f, i, i.neg_item_id, i.cf_neg_kg_neighbors)
                mae == config.cf_loss_function = "mae"
                positive == IF mae THEN mae_loss(pos, cf_pos) ELSE get_bpr_loss(cf_pos, neg)
                negative == IF mae THEN mae_loss(neg, cf_neg) ELSE get_bpr_loss(pos, cf_neg)
                np == IF config.cf_pos_flag THEN 1 ELSE 0
                nn == IF config.cf_neg_flag THEN 1 ELSE 0
            IN  /\ Len(call.ret) = 1 + np + nn
                /\ call.ret[1] = get_bpr_loss(pos, neg)
                /\ config.cf_pos_flag =>
                      call.ret[2] = Weighted(config.cf_pos_weight[1], positive)
                /\ config.cf_neg_flag =>
                      call.ret[2 + np] = Weighted(config.cf_neg_weight[1], negative)

\* both flags on: three terms, the two consistency terms being different terms
C3_Witness ==
    /\ InCall("calculate_loss")
    /\ config.cf_pos_flag /\ config.cf_neg_flag
    /\ Len(call.ret) = 3
    /\ call.ret[2].loss # call.ret[3].loss

\* a consistency-loss weight is set while its flag is off
Contradictory(c) ==
    \/ (~c.cf_pos_flag /\ c.cf_pos_weight # None)
    \/ (~c.cf_neg_flag /\ c.cf_neg_weight # None)

\* C6: a consistency-loss weight set while the corresponding flag is off is
\* rejected at startup: the model is not built with such a configuration.
C6_ContradictoryConfigRejected ==
    Contradictory(config) => pc = "start"

\* C7: generate_pos_reward returns reward1 from (cf positive score under table 1)
\* - (true negative score) and reward2 from (true positive score) - (cf positive
\* score under table 2); generate_neg_reward returns reward1 from (true positive
\* score) - (cf negative score under table 1) and reward2 from (cf negative score
\* under table 2) - (true negative score); only reward1 carries the ib_beta norm
\* penalty, of the cf embedding under table 1.
C7_RewardPairing ==
    (/\ (InCall("generate_pos_reward") \/ InCall("generate_neg_reward"))
     /\ ~call.raised) =>
        \A f \in {forward} :
            LET i == call.interaction
                is_pos == call.op = "generate_pos_reward"
                items == IF is_pos THEN i.item_id ELSE i.neg_item_id
                pos == TrueScores(f, i, i.item_id)
                neg == TrueScores(f, i, i.neg_item_id)
                cf1 == CfScores(f, i, items, call.kg_neighbors1)
                cf2 == CfScores(f, i, items, call.kg_neighbors2)
                emb1 == get_cf_i_embeddings(items, call.kg_neighbors1)
                reward1 == call.ret[1]
                reward2 == call.ret[2]
            IN  /\ Len(call.ret) = 2
                /\ DOMAIN reward1 = {"log_sigmoid", "ib_beta_norm_sq"}
                /\ DOMAIN reward2 = {"log_sigmoid"}
                /\ \A b \in 1 .. Len(items) :
                    /\ reward1.ib_beta_norm_sq[b] = Dot(emb1[b], emb1[b])
                    /\ is_pos => /\ reward1.log_sigmoid[b] = cf1[b] - neg[b]
                                 /\ reward2.log_sigmoid[b] = pos[b] - cf2[b]
                    /\ ~is_pos => /\ reward1.log_sigmoid[b] = pos[b] - cf1[b]
                                  /\ reward2.log_sigmoid[b] = cf2[b] - neg[b]

\* a positive-direction reward pair over two different tables
C7_Witness ==
    /\ InCall("generate_pos_reward") /\ ~call.raised
    /\ call.kg_neighbors1 # call.kg_neighbors2
    /\ Len(call.ret) = 2

ModelOps == {"forward", "calculate_loss", "full_sort_predict", "get_cf_i_embeddings",
             "generate_pos_reward", "generate_neg_reward"}

\* C9: no operation of the model changes ui_adj, kg_adj or a neighbor table
\* (raw_kg_neighbors, cf_pos_kg_neighbors, cf_neg_kg_neighbors), and the two
\* reward entry points leave the prediction cache unchanged.
C9_Frame ==
    [][(call.returned /\ ~call'.returned /\ call'.op \in ModelOps) =>
          /\ ui_adj' = ui_adj /\ kg_adj' = kg_adj
          /\ raw_kg_neighbors' = raw_kg_neighbors
          /\ cf_pos_kg_neighbors' = cf_pos_kg_neighbors
          /\ cf_neg_kg_neighbors' = cf_neg_kg_neighbors
          /\ call'.op \in {"generate_pos_reward", "generate_neg_reward"} =>
                /\ restore_user_e' = restore_user_e
                /\ restore_item_e' = restore_item_e]_vars

\* a reward entry point was called while a snapshot was stored
C9_Witness ==
    /\ InCall("generate_neg_reward")
    /\ restore_user_e # None /\ restore_item_e # None
    /\ cf_pos_kg_neighbors # raw_kg_neighbors

\* the learnable rows at index 0 are the zero vector
PaddingRowsZero == user_embedding[0] = ZeroVec /\ entity_embedding[0] = ZeroVec

\* C4 (as claimed): with the learnable rows at index 0 zero, forward() returns the
\* zero vector for user 0 and for entity 0, for every raw neighbor table and
\* interaction matrix and every n_kg_layers and n_ui_layers.
C4_IndexZeroAlwaysZero ==
    (InCall("forward") /\ PaddingRowsZero) =>
        /\ call.ret[1][0] = ZeroVec
        /\ call.ret[2][0] = ZeroVec

\* row 0 of the raw table holds the sentinel only, and user 0 has no interaction
NoEdgeAtZero ==
    /\ \A s \in Slots : raw_kg_neighbors[0][s] = 0
    /\ \A i \in Items : <<0, i>> \notin ui_graph

\* C4 (amended): the same, provided row 0 of the raw neighbor table holds only
\* the sentinel 0 and user 0 has no interaction in the matrix.
C4_IndexZeroWithoutEdges ==
    (InCall("forward") /\ PaddingRowsZero /\ NoEdgeAtZero) =>
        /\ call.ret[1][0] = ZeroVec
        /\ call.ret[2][0] = ZeroVec

\* forward() propagated over both graphs and index 0 came out zero
C4_Witness ==
    /\ InCall("forward") /\ PaddingRowsZero /\ NoEdgeAtZero
    /\ config.n_kg_layers >= 1 /\ config.n_ui_layers >= 1
    /\ \E e \in Entities : call.ret[2][e] # VScale(EntityScale, entity_embedding[e])
    /\ \E u \in Users : call.ret[1][u] # VScale(UserScale, user_embedding[u])
    /\ call.ret[1][0] = ZeroVec /\ call.ret[2][0] = ZeroVec

\* C5: get_batch_neighbors returns n_kg_layers + 1 levels; level 0 is the batch,
\* one id per row; level k has one row per batch row, of max_neighbor_size^k ids,
\* the neighbor lookups of level k-1's row in order.
C5_HopLevels ==
    InCall("get_batch_neighbors") =>
        LET L == config.n_kg_layers
            B == Len(call.items)
            level(k) == call.ret[k + 1]
        IN  /\ Len(call.ret) = L + 1
            /\ \A k \in 0 .. L : Len(level(k)) = B
            /\ \A b \in 1 .. B : level(0)[b] = << call.items[b] >>
            /\ \A k \in 1 .. L : \A b \in 1 .. B :
                /\ Len(level(k)[b]) = Pow(max_neighbor_size, k)
                /\ \A j \in 1 .. Len(level(k)[b]) :
                     level(k)[b][j] =
                        call.kg_neighbors[level(k - 1)[b][((j - 1) \div max_neighbor_size) + 1]]
                                         [((j - 1) % max_neighbor_size) + 1]

\* a two-hop expansion of a batch of two items that reaches a real entity
C5_Witness ==
    /\ InCall("get_batch_neighbors")
    /\ config.n_kg_layers = 2 /\ Len(call.items) = 2
    /\ Len(call.ret) = 3
    /\ \E j \in 1 .. Len(call.ret[3][2]) : call.ret[3][2][j] # 0

\* the degree of a node of the user-item graph, from the interaction matrix
UiDegree(r) ==
    IF r < n_users THEN Cardinality({i \in Items : <<r, i>> \in ui_graph})
    ELSE Cardinality({u \in Users : <<u, r - n_users>> \in ui_graph})
UiNeighbors(r) ==
    IF r < n_users THEN {n_users + i : i \in {i \in Items : <<r, i>> \in ui_graph}}
    ELSE {u \in Users : <<u, r - n_users>> \in ui_graph}

RECURSIVE RowSumTo(_, _)
RowSumTo(row, c) == IF c < 0 THEN 0 ELSE row[c] + RowSumTo(row, c - 1)
RowSum(r) == RowSumTo(ui_adj.num[r], n_users + n_items - 1)

\* a row sums to 1: each of its entries is rounded down by less than 1/Unit
SumsToOne(r) == Abs(RowSum(r) - Unit) <= UiDegree(r)

\* C8 (as claimed): every row of the normalized user-item adjacency that has an
\* edge sums to 1, whatever the degrees of the connected users and items.
C8_RowsSumToOne ==
    pc # "start" => \A r \in UiNodes : UiDegree(r) > 0 => SumsToOne(r)

\* C8 (amended): every row with an edge whose neighbours all have the row's own
\* degree sums to 1.
C8_EqualDegreeRowsSumToOne ==
    pc # "start" =>
        \A r \in UiNodes :
            (UiDegree(r) > 0 /\ \A c \in UiNeighbors(r) : UiDegree(c) = UiDegree(r))
                => SumsToOne(r)

\* a user with two items that each have two users
C8_Witness ==
    /\ pc # "start"
    /\ \E r \in Users : /\ UiDegree(r) = 2
                        /\ \A c \in UiNeighbors(r) : UiDegree(c) = 2
                        /\ SumsToOne(r)

\* C10: given the raw neighbor table kg_adj was built from, get_cf_i_embeddings
\* returns for each item its KG-propagated entity embedding of forward(), also
\* for rows padded with 0 and rows that repeat a neighbor id.
C10_CfMirrorsForward ==
    (InCall("get_cf_i_embeddings") /\ call.kg_neighbors = raw_kg_neighbors) =>
        \A f \in {forward} :
            \A b \in 1 .. Len(call.items) : call.ret[b] = f[2][call.items[b]]

====
